---- MODULE Spec2Model ----
(***************************************************************************)
(* Model of ensamblador.py: the assembler of a 12-bit, 8-instruction       *)
(* machine.  Text is modelled as sequences of one-character strings, so    *)
(* that strip(), upper(), the two regular expressions, int() and the       *)
(* f-string formatting are computed character by character.                *)
(***************************************************************************)
EXTENDS Integers, Sequences, FiniteSets, TLC

VARIABLES archivo, pc, leidas, linea, dato, cod, instrucciones, datos,
          resultado, archivo_bin, error

vars == <<archivo, pc, leidas, linea, dato, cod, instrucciones, datos,
          resultado, archivo_bin, error>>

(***************************************************************************)
(* Characters                                                              *)
(***************************************************************************)
Minusculas == <<"a", "b", "c", "d", "e", "f", "g", "h", "i", "j", "k", "l", "m",
                "n", "o", "p", "q", "r", "s", "t", "u", "v", "w", "x", "y", "z">>

Mayusculas == <<"A", "B", "C", "D", "E", "F", "G", "H", "I", "J", "K", "L", "M",
                "N", "O", "P", "Q", "R", "S", "T", "U", "V", "W", "X", "Y", "Z">>

Digitos == <<"0", "1", "2", "3", "4", "5", "6", "7", "8", "9">>

HexDigitos == <<"0", "1", "2", "3", "4", "5", "6", "7", "8", "9",
                "A", "B", "C", "D", "E", "F">>

Rango(s) == {s[i] : i \in DOMAIN s}

\* \s of the re module and the characters str.strip() removes
ClaseS == {" ", "\t", "\n", "\r", "\f"}

\* \d
ClaseD == Rango(Digitos)

\* \w
ClaseW == Rango(Minusculas) \cup Rango(Mayusculas) \cup ClaseD \cup {"_"}

\* [0-9A-F] under re.IGNORECASE
ClaseHex == Rango(HexDigitos) \cup {"a", "b", "c", "d", "e", "f"}

Indice(s, c) == CHOOSE i \in DOMAIN s : s[i] = c

\* str.upper() on one character
Mayus(c) == IF c \in Rango(Minusculas) THEN Mayusculas[Indice(Minusculas, c)] ELSE c

(***************************************************************************)
(* Python values: None, str, tuple, int, and a raised ValueError           *)
(***************************************************************************)
None == [t |-> "None", v |-> <<>>]

str(s) == [t |-> "str", v |-> s]

tuple(a, b) == [t |-> "tuple", v |-> <<a, b>>]

entero(k) == [t |-> "int", v |-> <<k>>]

ValueError(m) == [t |-> "ValueError", v |-> m]

(***************************************************************************)
(* String methods                                                          *)
(***************************************************************************)
RECURSIVE lstrip(_)
lstrip(s) == IF s # <<>> /\ Head(s) \in ClaseS THEN lstrip(Tail(s)) ELSE s

RECURSIVE rstrip(_)
rstrip(s) ==
    IF s # <<>> /\ s[Len(s)] \in ClaseS THEN rstrip(SubSeq(s, 1, Len(s) - 1)) ELSE s

strip(s) == rstrip(lstrip(s))

upper(s) == [i \in 1..Len(s) |-> Mayus(s[i])]

startswith(s, p) == Len(s) >= Len(p) /\ SubSeq(s, 1, Len(p)) = p

\* the character of s at position p, "" past the end
CharAt(s, p) == IF p \in 1..Len(s) THEN s[p] ELSE ""

\* length of the longest run of characters of class C that starts at p
\* (what a greedy C* consumes)
RECURSIVE Tramo(_, _, _)
Tramo(C, s, p) == IF p \in 1..Len(s) /\ s[p] \in C THEN 1 + Tramo(C, s, p + 1) ELSE 0

(***************************************************************************)
(* int() and number formatting                                             *)
(***************************************************************************)
DigitVal(c) == Indice(HexDigitos, Mayus(c)) - 1

\* int(s, base) of a string of digits of that base
RECURSIVE int_base(_, _)
int_base(s, base) ==
    IF s = <<>> THEN 0
    ELSE base * int_base(SubSeq(s, 1, Len(s) - 1), base) + DigitVal(s[Len(s)])

\* int(s): base 10, leading zeros accepted
int(s) == int_base(s, 10)

\* int(s, 0) on a string the data regex captured: the base follows the
\* literal's prefix, and a decimal literal other than zero may not start with 0
int0(s) ==
    IF Len(s) >= 2 /\ s[1] = "0" /\ Mayus(s[2]) = "X"
    THEN entero(int_base(SubSeq(s, 3, Len(s)), 16))
    ELSE IF Len(s) >= 2 /\ s[1] = "0" /\ Rango(s) # {"0"}
    THEN ValueError(s)
    ELSE entero(int_base(s, 10))

\* format(n, "X") and str(n) for n >= 0
RECURSIVE EnBase(_, _)
EnBase(k, base) ==
    IF k < base THEN <<HexDigitos[k + 1]>>
    ELSE EnBase(k \div base, base) \o <<HexDigitos[(k % base) + 1]>>

RECURSIVE Ceros(_)
Ceros(k) == IF k <= 0 THEN <<>> ELSE <<"0">> \o Ceros(k - 1)

\* f"{valor:03X}"
Hex03X(valor) == LET h == EnBase(valor, 16) IN Ceros(3 - Len(h)) \o h

\* f"{val}"
Dec(val) == EnBase(val, 10)

(***************************************************************************)
(* Bit operations on non-negative integers                                 *)
(***************************************************************************)
RECURSIVE BitOr(_, _)
BitOr(a, b) ==
    IF a = 0 THEN b
    ELSE IF b = 0 THEN a
    ELSE (IF a % 2 = 1 \/ b % 2 = 1 THEN 1 ELSE 0) + 2 * BitOr(a \div 2, b \div 2)

RECURSIVE BitAnd(_, _)
BitAnd(a, b) ==
    IF a = 0 \/ b = 0 THEN 0
    ELSE (IF a % 2 = 1 /\ b % 2 = 1 THEN 1 ELSE 0) + 2 * BitAnd(a \div 2, b \div 2)

ShiftL(a, k) == a * (2 ^ k)

(***************************************************************************)
(* OPCODES and ensamblar_linea                                             *)
(***************************************************************************)
OPCODES ==
    (<<"S", "T">> :> 0) @@ (<<"L", "D">> :> 1) @@ (<<"A", "D", "D">> :> 2) @@
    (<<"B", "R">> :> 3) @@ (<<"B", "Z">> :> 4) @@ (<<"C", "L", "R">> :> 5) @@
    (<<"D", "E", "C">> :> 6) @@ (<<"H", "A", "L", "T">> :> 7)

NoMatch == [ok |-> FALSE, groups |-> <<>>]

\* re.match(r'(\w+)\s+(\w+),\s*\[(\d+)\]', s): anchored at the start, free at
\* the end.  Adjacent greedy runs are over disjoint classes, so the greedy
\* match is the only one.
MatchInstr(s) ==
    LET n1 == Tramo(ClaseW, s, 1)
        p2 == 1 + n1
        n2 == Tramo(ClaseS, s, p2)
        p3 == p2 + n2
        n3 == Tramo(ClaseW, s, p3)
        p4 == p3 + n3
        n4 == Tramo(ClaseS, s, p4 + 1)
        p5 == p4 + 1 + n4
        n5 == Tramo(ClaseD, s, p5 + 1)
        p6 == p5 + 1 + n5
    IN  IF /\ n1 > 0 /\ n2 > 0 /\ n3 > 0
           /\ CharAt(s, p4) = ","
           /\ CharAt(s, p5) = "["
           /\ n5 > 0
           /\ CharAt(s, p6) = "]"
        THEN [ok |-> TRUE,
              groups |-> <<SubSeq(s, 1, n1), SubSeq(s, p3, p4 - 1),
                           SubSeq(s, p5 + 1, p6 - 1)>>]
        ELSE NoMatch

\* faulty variant: the address is not masked to its low 6 bits
Empaquetar_sin_mascara(opcode, reg_bit, dirm, addr) ==
    BitOr(BitOr(BitOr(ShiftL(opcode, 9), ShiftL(reg_bit, 8)), ShiftL(dirm, 6)), addr)

\* faulty variant: the register bit is shifted into the opcode field
Empaquetar_reg_bit_9(opcode, reg_bit, dirm, addr) ==
    BitOr(BitOr(BitOr(ShiftL(opcode, 9), ShiftL(reg_bit, 9)), ShiftL(dirm, 6)),
          BitAnd(addr, 63))

\* valor = (opcode << 9) | (reg_bit << 8) | (dirm << 6) | (addr & 0x3F)
Empaquetar(opcode, reg_bit, dirm, addr) ==
    BitOr(BitOr(BitOr(ShiftL(opcode, 9), ShiftL(reg_bit, 8)), ShiftL(dirm, 6)),
          BitAnd(addr, 63))

\* f"0x{valor:03X}, // {instr} {reg},[{addr}]"
FormatoInstr(valor, instr, reg, addr) ==
    <<"0", "x">> \o Hex03X(valor) \o <<",", " ", "/", "/", " ">> \o instr
        \o <<" ">> \o reg \o <<",", "[">> \o Dec(addr) \o <<"]">>

TextoHalt == <<"0", "x", "E", "0", "0", ",", " ", "/", "/", " ", "H", "A", "L", "T">>

\* faulty variant: an unknown mnemonic is skipped instead of raising
ensamblar_linea_tolerante(linea0) ==
    LET l == upper(strip(linea0))
        m == MatchInstr(l)
        instr == m.groups[1]
        reg == m.groups[2]
        addr == int(m.groups[3])
        reg_bit == IF reg = <<"A", "C", "C">> THEN 1 ELSE 0
        dirm == 0
    IN  IF l = <<>> \/ startswith(l, <<";">>) THEN None
        ELSE IF startswith(l, <<"H", "A", "L", "T">>) THEN str(TextoHalt)
        ELSE IF ~m.ok THEN None
        ELSE IF instr \notin DOMAIN OPCODES THEN None
        ELSE str(FormatoInstr(Empaquetar(OPCODES[instr], reg_bit, dirm, addr),
                              instr, reg, addr))

\* faulty variant: HALT is recognised only as the whole line
ensamblar_linea_halt_exacto(linea0) ==
    LET l == upper(strip(linea0))
        m == MatchInstr(l)
        instr == m.groups[1]
        reg == m.groups[2]
        addr == int(m.groups[3])
        reg_bit == IF reg = <<"A", "C", "C">> THEN 1 ELSE 0
        dirm == 0
    IN  IF l = <<>> \/ startswith(l, <<";">>) THEN None
        ELSE IF l = <<"H", "A", "L", "T">> THEN str(TextoHalt)
        ELSE IF ~m.ok THEN None
        ELSE IF instr \notin DOMAIN OPCODES THEN ValueError(instr)
        ELSE str(FormatoInstr(Empaquetar(OPCODES[instr], reg_bit, dirm, addr),
                              instr, reg, addr))

ensamblar_linea(linea0) ==
    LET l == upper(strip(linea0))
        m == MatchInstr(l)
        instr == m.groups[1]
        reg == m.groups[2]
        addr == int(m.groups[3])
        reg_bit == IF reg = <<"A", "C", "C">> THEN 1 ELSE 0
        dirm == 0
    IN  IF l = <<>> \/ startswith(l, <<";">>) THEN None
        ELSE IF startswith(l, <<"H", "A", "L", "T">>) THEN str(TextoHalt)
        ELSE IF ~m.ok THEN None
        ELSE IF instr \notin DOMAIN OPCODES THEN ValueError(instr)
        ELSE str(FormatoInstr(Empaquetar(OPCODES[instr], reg_bit, dirm, addr),
                              instr, reg, addr))

(***************************************************************************)
(* parsear_datos                                                           *)
(***************************************************************************)
\* re.match(r'MEM\[(\d+)\]\s*=\s*(0X[0-9A-F]+|\d+)', s, re.IGNORECASE): the
\* first alternative is tried first, the second only when the first fails.
MatchDatos(s) ==
    LET n1 == Tramo(ClaseD, s, 5)
        p1 == 5 + n1
        n2 == Tramo(ClaseS, s, p1 + 1)
        p2 == p1 + 1 + n2
        n3 == Tramo(ClaseS, s, p2 + 1)
        p3 == p2 + 1 + n3
        nh == Tramo(ClaseHex, s, p3 + 2)
        esHex == CharAt(s, p3) = "0" /\ Mayus(CharAt(s, p3 + 1)) = "X" /\ nh > 0
        nd == Tramo(ClaseD, s, p3)
    IN  IF /\ Len(s) >= 4
           /\ upper(SubSeq(s, 1, 4)) = <<"M", "E", "M", "[">>
           /\ n1 > 0
           /\ CharAt(s, p1) = "]"
           /\ CharAt(s, p2) = "="
           /\ (esHex \/ nd > 0)
        THEN [ok |-> TRUE,
              groups |-> <<SubSeq(s, 5, p1 - 1),
                           IF esHex THEN SubSeq(s, p3, p3 + 1 + nh)
                                    ELSE SubSeq(s, p3, p3 + nd - 1)>>]
        ELSE NoMatch

parsear_datos(linea0) ==
    LET l == strip(linea0)
        m == MatchDatos(l)
        direccion == int(m.groups[1])
        valor == int0(m.groups[2])
    IN  IF ~m.ok THEN None
        ELSE IF valor.t = "ValueError" THEN valor
        ELSE tuple(direccion, valor.v[1])

(***************************************************************************)
(* ensamblar_archivo                                                       *)
(***************************************************************************)
\* "\n".join(xs)
RECURSIVE join(_)
join(xs) ==
    IF xs = <<>> THEN <<>>
    ELSE IF Len(xs) = 1 THEN xs[1]
    ELSE xs[1] \o <<"\n">> \o join(Tail(xs))

\* faulty variant: an element goes before the elements of its own address
Insertar_inestable(x, s) ==
    LET k == Cardinality({i \in DOMAIN s : s[i][1] < x[1]})
    IN  SubSeq(s, 1, k) \o <<x>> \o SubSeq(s, k + 1, Len(s))

\* list.sort(key=lambda x: x[0]) is stable: an element goes after every
\* element already placed whose address is not greater than its own
Insertar(x, s) ==
    LET k == Cardinality({i \in DOMAIN s : s[i][1] <= x[1]})
    IN  SubSeq(s, 1, k) \o <<x>> \o SubSeq(s, k + 1, Len(s))

\* faulty variant: the data are left in source order
sort_sin_ordenar(s) == s

RECURSIVE sort(_)
sort(s) ==
    IF s = <<>> THEN <<>> ELSE Insertar(s[Len(s)], sort(SubSeq(s, 1, Len(s) - 1)))

\* faulty variant: value and address swapped
FormatoDato_invertido(d) ==
    Dec(d[1]) \o <<",", " ", "/", "/", " ", "m", "e", "m", "[">> \o Dec(d[2])
        \o <<"]", "\n">>

\* f"{val}, // mem[{dir}]\n"
FormatoDato(d) ==
    Dec(d[2]) \o <<",", " ", "/", "/", " ", "m", "e", "m", "[">> \o Dec(d[1])
        \o <<"]", "\n">>

RECURSIVE LineasDatos(_)
LineasDatos(ds) ==
    IF ds = <<>> THEN <<>> ELSE FormatoDato(Head(ds)) \o LineasDatos(Tail(ds))

\* faulty variant: one newline between the two blocks
salida_un_salto(instrs, ds) == join(instrs) \o <<"\n">> \o LineasDatos(ds)

\* the text built at lines 80-82, before the final strip()
salida(instrs, ds) == join(instrs) \o <<"\n", "\n">> \o LineasDatos(ds)

(***************************************************************************)
(* Inputs                                                                  *)
(***************************************************************************)
MaxLineas == 3

L_LD == <<"L", "D", " ", "A", "C", "C", ",", "[", "2", "]">>

L_ADD == <<"A", "D", "D", " ", "A", "C", "C", ",", "[", "3", "]">>

L_HALT == <<"H", "A", "L", "T">>

L_MEM2 == <<"M", "E", "M", "[", "2", "]", " ", "=", " ", "5">>

L_MEM3 == <<"M", "E", "M", "[", "3", "]", " ", "=", " ", "7">>

L_MEM2HEX == <<"M", "E", "M", "[", "2", "]", " ", "=", " ", "0", "x", "0", "A">>

L_MEM3CERO == <<"M", "E", "M", "[", "3", "]", " ", "=", " ", "0", "1", "0">>

L_MOV == <<"M", "O", "V", " ", "A", "C", "C", ",", "[", "0", "]">>

L_HALTX == <<"H", "A", "L", "T", "X", " ", "R", "1", ",", "[", "3", "]">>

L_COMENTARIO == <<" ", ";", " ", "n", "o", "t", "a">>

L_MEMX == <<"M", "E", "M", "[", "x", "]", " ", "=", " ", "1">>

L_ST == <<"s", "t", " ", "r", "1", ",", " ", "[", "6", "4", "]">>

L_SINOPERANDO == <<"L", "D", " ", "A", "C", "C">>

\* the lines a source file is made of
Lineas ==
    {L_LD, L_ST, L_HALT, L_HALTX, L_MOV, L_MEM2, L_MEM3, L_MEM2HEX, L_MEM3CERO,
     <<>>, L_COMENTARIO, L_MEMX, L_SINOPERANDO}

\* the end-to-end scenario
Ejemplo == <<L_LD, L_ADD, L_HALT, L_MEM2, L_MEM3>>

Archivos == UNION {[1..k -> Lineas] : k \in 0..MaxLineas} \cup {Ejemplo}

(***************************************************************************)
(* The run of the program: main calls ensamblar_archivo on the source      *)
(* file and writes the result, or catches the exception                    *)
(***************************************************************************)
Init ==
    /\ archivo \in Archivos
    /\ pc = "leyendo"
    /\ leidas = 0
    /\ linea = <<>>
    /\ dato = None
    /\ cod = None
    /\ instrucciones = <<>>
    /\ datos = <<>>
    /\ resultado = None
    /\ archivo_bin = None
    /\ error = None

\* one iteration of "for linea in f"
LeerLinea ==
    /\ pc = "leyendo"
    /\ leidas < Len(archivo)
    /\ LET l == archivo[leidas + 1] \o <<"\n">>
           d == parsear_datos(l)
           c == ensamblar_linea(l)
       IN  /\ linea' = l
           /\ leidas' = leidas + 1
           /\ IF d.t = "ValueError"
              THEN /\ error' = d
                   /\ pc' = "excepcion"
                   /\ UNCHANGED <<dato, cod, instrucciones, datos>>
              ELSE IF d.t = "tuple"
              THEN /\ dato' = d
                   /\ datos' = Append(datos, d.v)
                   /\ UNCHANGED <<cod, instrucciones, pc, error>>
              ELSE IF c.t = "ValueError"
              THEN /\ dato' = d
                   /\ error' = c
                   /\ pc' = "excepcion"
                   /\ UNCHANGED <<cod, instrucciones, datos>>
              ELSE /\ dato' = d
                   /\ cod' = c
                   /\ instrucciones' =
                          IF c.t = "str" THEN Append(instrucciones, c.v)
                                         ELSE instrucciones
                   /\ UNCHANGED <<datos, pc, error>>
    /\ UNCHANGED <<archivo, resultado, archivo_bin>>

\* end of the loop: sort, format, strip and return
Retornar ==
    /\ pc = "leyendo"
    /\ leidas = Len(archivo)
    /\ datos' = sort(datos)
    /\ resultado' = str(strip(salida(instrucciones, sort(datos))))
    /\ pc' = "retornado"
    /\ UNCHANGED <<archivo, leidas, linea, dato, cod, instrucciones, archivo_bin, error>>

\* main: out.write(resultado + "\n")
EscribirSalida ==
    /\ pc = "retornado"
    /\ archivo_bin' = str(resultado.v \o <<"\n">>)
    /\ pc' = "exito"
    /\ UNCHANGED <<archivo, leidas, linea, dato, cod, instrucciones, datos,
                   resultado, error>>

\* main: except Exception as e: print(...)
CapturarError ==
    /\ pc = "excepcion"
    /\ pc' = "error"
    /\ UNCHANGED <<archivo, leidas, linea, dato, cod, instrucciones, datos,
                   resultado, archivo_bin, error>>

Next == LeerLinea \/ Retornar \/ EscribirSalida \/ CapturarError

Spec == Init /\ [][Next]_vars

(***************************************************************************)
(* ensamblar_linea called on its own, on lines built from a mnemonic, a    *)
(* register token and an address                                           *)
(***************************************************************************)
MaxDir == 66

Mnemonicos ==
    DOMAIN OPCODES \cup
        {<<"M", "O", "V">>, <<"H", "A", "L", "T", "X">>, <<"l", "d">>,
         <<"H", "a", "l", "t">>, <<"S", "T", "O">>}

Registros == {<<"A", "C", "C">>, <<"R", "1">>, <<"a", "c", "c">>, <<"A", "C", "C", "1">>}

Direcciones == 0..MaxDir \cup {127, 128, 1000, 4095, 4096}

LineaInstr(mn, sp, rg, sp2, a) ==
    mn \o sp \o rg \o <<",">> \o sp2 \o <<"[">> \o Dec(a) \o <<"]">>

\* other shapes: surrounding and inner white space, a leading zero in the
\* address, text after the bracket, and lines no rule matches
OtrasLineas ==
    {<<>>, <<" ", "\t">>, L_HALT, L_COMENTARIO, L_SINOPERANDO, L_MEM2,
     <<" ", "h", "a", "l", "t", " ", "\n">>,
     <<"\t", "L", "D", " ", " ", "R", "1", ",", "\t", "[", "6", "4", "]", " ", "x", "\n">>,
     <<"L", "D", " ", "A", "C", "C", ",", "[", "0", "0", "7", "]">>,
     <<"L", "D", " ", "A", "C", "C", " ", ",", "[", "7", "]">>,
     <<"L", "D", ",", "A", "C", "C", ",", "[", "7", "]">>,
     <<"L", "D", " ", "A", "C", "C", ",", "[", "]">>}

EntradasLinea ==
    {LineaInstr(mn, <<" ">>, rg, <<>>, a) :
        mn \in Mnemonicos, rg \in Registros, a \in Direcciones}
    \cup OtrasLineas

InitLinea ==
    /\ linea \in EntradasLinea
    /\ pc = "llamada"
    /\ archivo = <<>>
    /\ leidas = 0
    /\ dato = None
    /\ cod = None
    /\ instrucciones = <<>>
    /\ datos = <<>>
    /\ resultado = None
    /\ archivo_bin = None
    /\ error = None

\* cod = ensamblar_linea(linea), or the exception it raises
LlamarEnsamblarLinea ==
    /\ pc = "llamada"
    /\ LET c == ensamblar_linea(linea)
       IN  IF c.t = "ValueError"
           THEN error' = c /\ pc' = "excepcion" /\ UNCHANGED cod
           ELSE cod' = c /\ pc' = "retorno" /\ UNCHANGED error
    /\ UNCHANGED <<archivo, leidas, linea, dato, instrucciones, datos,
                   resultado, archivo_bin>>

NextLinea == LlamarEnsamblarLinea

SpecLinea == InitLinea /\ [][NextLinea]_vars

(***************************************************************************)
(* parsear_datos called on its own, on directives built from an address    *)
(* and a value written in each accepted notation                           *)
(***************************************************************************)
MaxDirDato == 3

MaxValor == 20

minusculas(s) ==
    [i \in 1..Len(s) |->
        IF s[i] \in Rango(Mayusculas) THEN Minusculas[Indice(Mayusculas, s[i])]
        ELSE s[i]]

Notaciones == {"decimal", "cero_inicial", "hex", "HEX", "hex_cero"}

Escribir(notacion, v) ==
    CASE notacion = "decimal" -> Dec(v)
      [] notacion = "cero_inicial" -> <<"0">> \o Dec(v)
      [] notacion = "hex" -> <<"0", "x">> \o minusculas(EnBase(v, 16))
      [] notacion = "HEX" -> <<"0", "X">> \o EnBase(v, 16)
      [] notacion = "hex_cero" -> <<"0", "x", "0">> \o EnBase(v, 16)

LineaDato(a, texto) ==
    <<"M", "E", "M", "[">> \o Dec(a) \o <<"]", " ", "=", " ">> \o texto

OtrosDatos ==
    {<<>>, L_MEMX, L_LD, L_COMENTARIO,
     <<" ", "m", "e", "m", "[", "0", "3", "]", "=", "0", "X", "f", "f", "\n">>,
     <<"M", "E", "M", "[", "3", "]", " ", "=", " ", "0", "x">>,
     <<"M", "E", "M", " ", "[", "3", "]", " ", "=", " ", "1">>,
     <<"M", "E", "M", "[", "3", "]", "\t", "=", "\t", "1", "2", " ", ";", " ", "c">>,
     <<"M", "E", "M", "[", "3", "]", " ", "=">>}

EntradasDatos ==
    {LineaDato(a, Escribir(nt, v)) :
        a \in 0..MaxDirDato, nt \in Notaciones, v \in 0..MaxValor}
    \cup OtrosDatos

InitDatos ==
    /\ linea \in EntradasDatos
    /\ pc = "llamada"
    /\ archivo = <<>>
    /\ leidas = 0
    /\ dato = None
    /\ cod = None
    /\ instrucciones = <<>>
    /\ datos = <<>>
    /\ resultado = None
    /\ archivo_bin = None
    /\ error = None

\* dato = parsear_datos(linea), or the exception it raises
LlamarParsearDatos ==
    /\ pc = "llamada"
    /\ LET d == parsear_datos(linea)
       IN  IF d.t = "ValueError"
           THEN error' = d /\ pc' = "excepcion" /\ UNCHANGED dato
           ELSE dato' = d /\ pc' = "retorno" /\ UNCHANGED error
    /\ UNCHANGED <<archivo, leidas, linea, cod, instrucciones, datos,
                   resultado, archivo_bin>>

NextDatos == LlamarParsearDatos

SpecDatos == InitDatos /\ [][NextDatos]_vars

(***************************************************************************)
(* Vocabulary of the properties                                            *)
(***************************************************************************)
HALT == <<"H", "A", "L", "T">>

ACC == <<"A", "C", "C">>

\* the line, trimmed and upper-cased, has the form <MNEMONIC> <REG>,[<ADDR>]
EsDosOperandos(l) == MatchInstr(upper(strip(l))).ok

MnemonicoDe(l) == MatchInstr(upper(strip(l))).groups[1]

RegistroDe(l) == MatchInstr(upper(strip(l))).groups[2]

DireccionDe(l) == int(MatchInstr(upper(strip(l))).groups[3])

EmpiezaConHalt(l) == startswith(upper(strip(l)), HALT)

\* a two-operand instruction line whose mnemonic is not in the opcode table
EsDesconocida(l) == EsDosOperandos(l) /\ MnemonicoDe(l) \notin DOMAIN OPCODES

\* a line of the form MEM[<address>] = <value>
EsDirectiva(l) == MatchDatos(strip(l)).ok

\* the word an encoded line shows: the three hex digits after "0x"
PalabraDe(texto) == int_base(SubSeq(texto, 3, 5), 16)

EsCodigo(texto) ==
    /\ Len(texto) >= 6
    /\ SubSeq(texto, 1, 2) = <<"0", "x">>
    /\ \A i \in 3..5 : texto[i] \in Rango(HexDigitos)
    /\ texto[6] = ","

\* the lines of a text
RECURSIVE Partir(_)
Partir(s) ==
    IF s = <<>> THEN <<>>
    ELSE IF "\n" \notin Rango(s) THEN <<s>>
    ELSE LET k == CHOOSE i \in DOMAIN s : s[i] = "\n" /\ \A j \in 1..(i - 1) : s[j] # "\n"
         IN  <<SubSeq(s, 1, k - 1)>> \o
                 (IF k = Len(s) THEN <<<<>>>> ELSE Partir(SubSeq(s, k + 1, Len(s))))

EsBlanca(l) == strip(l) = <<>>

EsLineaInstr(l) == startswith(l, <<"0", "x">>)

EsLineaDato(l) == ~EsBlanca(l) /\ ~EsLineaInstr(l)

\* the value and the address a data line "<value>, // mem[<address>]" shows
ValorMostrado(l) == int(SubSeq(l, 1, Tramo(ClaseD, l, 1)))

DirMostrada(l) == int(SubSeq(l, Tramo(ClaseD, l, 1) + 10, Len(l) - 1))

ParMostrado(l) == <<DirMostrada(l), ValorMostrado(l)>>

\* the encodings of the instruction lines of a source, in source order
RECURSIVE InstrFuente(_)
InstrFuente(f) ==
    IF f = <<>> THEN <<>>
    ELSE (IF ~EsDirectiva(Head(f)) /\ ensamblar_linea(Head(f)).t = "str"
          THEN <<ensamblar_linea(Head(f)).v>> ELSE <<>>) \o InstrFuente(Tail(f))

\* the (address, value) pairs of the data directives of a source, in source order
RECURSIVE ParesFuente(_)
ParesFuente(f) ==
    IF f = <<>> THEN <<>>
    ELSE (IF parsear_datos(Head(f)).t = "tuple"
          THEN <<parsear_datos(Head(f)).v>> ELSE <<>>) \o ParesFuente(Tail(f))

Termino == pc \in {"retornado", "exito"}

Fallo == pc \in {"excepcion", "error"}

(***************************************************************************)
(* C1                                                                      *)
(***************************************************************************)
TextoC1 ==
    <<"0", "x", "D", "3", "F", ",", " ", "/", "/", " ", "D", "E", "C", " ", "A",
      "C", "C", ",", "[", "1", "2", "7", "]">>

\* C1: every line that reaches the two-operand rule with a mnemonic of the
\* opcode table is encoded, without error, as the word
\* opcode * 2^9 + reg_bit * 2^8 + (a mod 64), where reg_bit is 1 exactly when
\* the register token is ACC; bits 7:6 are 0 and the word is in 0..4095, also
\* for an address of 64 or more.
C1_Empaquetado ==
    (/\ pc # "llamada"
     /\ ~EsBlanca(linea)
     /\ ~startswith(strip(linea), <<";">>)
     /\ ~EmpiezaConHalt(linea)
     /\ EsDosOperandos(linea)
     /\ MnemonicoDe(linea) \in DOMAIN OPCODES)
    => /\ pc = "retorno"
       /\ cod.t = "str"
       /\ EsCodigo(cod.v)
       /\ LET bit == IF RegistroDe(linea) = ACC THEN 1 ELSE 0
              palabra == PalabraDe(cod.v)
          IN  /\ palabra = OPCODES[MnemonicoDe(linea)] * 512 + bit * 256
                               + (DireccionDe(linea) % 64)
              /\ (palabra \div 64) % 4 = 0
              /\ palabra \in 0..4095

C1_Witness ==
    /\ pc = "retorno"
    /\ linea = LineaInstr(<<"D", "E", "C">>, <<" ">>, <<"a", "c", "c">>, <<>>, 127)
    /\ cod = str(TextoC1)

(***************************************************************************)
(* C2                                                                      *)
(***************************************************************************)
TextoC2 ==
    <<"0", "x", "3", "0", "0", ",", " ", "/", "/", " ", "L", "D", " ", "A", "C",
      "C", ",", "[", "0", "]">>

\* C2 as stated: for each of the 8 mnemonics M of the opcode table, with
\* opcode O, the line 'M ACC,[0]' is encoded as the word O * 2^9 + 2^8.
C2_Original ==
    \A mn \in DOMAIN OPCODES :
        (pc # "llamada" /\ linea = LineaInstr(mn, <<" ">>, ACC, <<>>, 0))
        => /\ pc = "retorno"
           /\ EsCodigo(cod.v)
           /\ PalabraDe(cod.v) = OPCODES[mn] * 512 + 256

\* C2 amended: that holds for the 7 mnemonics other than HALT; 'HALT ACC,[0]'
\* is encoded as 0xE00 = 7 * 2^9, with the register bit clear.
C2_Amended ==
    \A mn \in DOMAIN OPCODES :
        (pc # "llamada" /\ linea = LineaInstr(mn, <<" ">>, ACC, <<>>, 0))
        => /\ pc = "retorno"
           /\ EsCodigo(cod.v)
           /\ PalabraDe(cod.v) =
                  IF mn = HALT THEN 3584 ELSE OPCODES[mn] * 512 + 256

C2_Witness ==
    /\ pc = "retorno"
    /\ linea = LineaInstr(<<"L", "D">>, <<" ">>, ACC, <<>>, 0)
    /\ cod = str(TextoC2)

(***************************************************************************)
(* C10                                                                     *)
(***************************************************************************)
TextoC10 ==
    <<"0", "x", "E", "0", "0", ",", " ", "/", "/", " ", "H", "A", "L", "T">>

\* C10: every line whose trimmed, upper-cased text begins with HALT is
\* encoded as "0xE00, // HALT", whatever follows the prefix, and never raises
\* the unknown-instruction error.
C10_PrefijoHalt ==
    (pc # "llamada" /\ EmpiezaConHalt(linea))
    => (pc = "retorno" /\ cod = str(TextoC10))

C10_Witness ==
    /\ pc = "retorno"
    /\ linea = LineaInstr(<<"H", "A", "L", "T", "X">>, <<" ">>, <<"R", "1">>, <<>>, 3)
    /\ cod = str(TextoC10)

(***************************************************************************)
(* C6                                                                      *)
(***************************************************************************)
\* C6 as stated: for every line MEM[<address>] = <value>, parsear_datos
\* returns (address, value), a 0x/0X value read as hexadecimal and any
\* other value as decimal, also when it has a leading zero.
C6_Claim ==
    \A a \in 0..MaxDirDato, nt \in Notaciones, v \in 0..MaxValor :
        (pc # "llamada" /\ linea = LineaDato(a, Escribir(nt, v)))
        => (pc = "retorno" /\ dato = tuple(a, v))

(***************************************************************************)
(* C3                                                                      *)
(***************************************************************************)
TextoC3Original ==
    <<"0", "x", "1", "0", "2", ",", " ", "/", "/", " ", "L", "D", " ", "A", "C",
      "C", ",", "[", "2", "]", "\n", "0", "x", "5", "0", "2", ",", " ", "/", "/",
      " ", "A", "D", "D", " ", "A", "C", "C", ",", "[", "3", "]", "\n", "0", "x",
      "E", "0", "0", ",", " ", "/", "/", " ", "H", "A", "L", "T", "\n", "\n", "5",
      ",", " ", "/", "/", " ", "m", "e", "m", "[", "2", "]", "\n", "7", ",", " ",
      "/", "/", " ", "m", "e", "m", "[", "3", "]">>

TextoC3 ==
    <<"0", "x", "3", "0", "2", ",", " ", "/", "/", " ", "L", "D", " ", "A", "C",
      "C", ",", "[", "2", "]", "\n", "0", "x", "5", "0", "3", ",", " ", "/", "/",
      " ", "A", "D", "D", " ", "A", "C", "C", ",", "[", "3", "]", "\n", "0", "x",
      "E", "0", "0", ",", " ", "/", "/", " ", "H", "A", "L", "T", "\n", "\n", "5",
      ",", " ", "/", "/", " ", "m", "e", "m", "[", "2", "]", "\n", "7", ",", " ",
      "/", "/", " ", "m", "e", "m", "[", "3", "]">>

\* C3 as stated: the five-line scenario produces the words 0x102 and 0x502
\* for its LD and ADD lines.
C3_Original == (archivo = Ejemplo /\ Termino) => resultado = str(TextoC3Original)

\* C3 amended: the five-line scenario produces '0x302, // LD ACC,[2]',
\* '0x503, // ADD ACC,[3]', '0xE00, // HALT', one blank line, '5, // mem[2]',
\* '7, // mem[3]', in that order.
C3_Amended == (archivo = Ejemplo /\ Termino) => resultado = str(TextoC3)

C3_Witness ==
    /\ archivo = Ejemplo
    /\ pc = "exito"
    /\ Len(instrucciones) = 3
    /\ Len(datos) = 2

(***************************************************************************)
(* C4                                                                      *)
(***************************************************************************)
\* the first line of the source that satisfies P, 0 when there is none
Primera(P(_)) ==
    IF \E i \in DOMAIN archivo : P(archivo[i])
    THEN CHOOSE i \in DOMAIN archivo :
             P(archivo[i]) /\ \A j \in 1..(i - 1) : ~P(archivo[j])
    ELSE 0

\* C4 as stated: when a line of the input is a two-operand instruction line
\* whose mnemonic is not in the opcode table, the run aborts at (the first)
\* such line with an error, ensamblar_archivo returns no text and the output
\* file is never written.
C4_Original ==
    LET i == Primera(EsDesconocida)
    IN  i > 0 => /\ resultado = None
                 /\ archivo_bin = None
                 /\ ~Termino
                 /\ leidas <= i
                 /\ leidas = i => Fallo
                 /\ Fallo => leidas = i

EsDesconocidaSinHalt(l) == EsDesconocida(l) /\ ~EmpiezaConHalt(l)

\* C4 amended: when a line of the input is a two-operand instruction line
\* whose mnemonic is not in the opcode table and whose trimmed, upper-cased
\* text does not begin with HALT, the run aborts with an error no later than
\* the first such line, ensamblar_archivo returns no text and the output file
\* is never written.
C4_Amended ==
    LET i == Primera(EsDesconocidaSinHalt)
    IN  i > 0 => /\ resultado = None
                 /\ archivo_bin = None
                 /\ ~Termino
                 /\ leidas <= i
                 /\ leidas = i => Fallo

C4_Witness ==
    /\ archivo = <<L_LD, L_MEM2, L_MOV>>
    /\ pc = "error"
    /\ leidas = 3
    /\ error = ValueError(<<"M", "O", "V">>)
    /\ instrucciones # <<>>
    /\ datos # <<>>
    /\ archivo_bin = None

(***************************************************************************)
(* C7                                                                      *)
(***************************************************************************)
\* C7 as stated: a run fails only at a two-operand line with an unknown
\* mnemonic, and the lines that are neither a data directive nor an encoded
\* instruction leave the two collections as they were.
C7_Claim ==
    /\ Fallo => leidas > 0 /\ EsDesconocida(archivo[leidas])
    /\ ~Fallo =>
           LET f == SubSeq(archivo, 1, leidas)
               util(l) == EsDirectiva(l) \/ ensamblar_linea(l).t = "str"
           IN  /\ instrucciones = InstrFuente(SelectSeq(f, util))
               /\ Len(datos) = Len(ParesFuente(SelectSeq(f, util)))

(***************************************************************************)
(* C5                                                                      *)
(***************************************************************************)
TextoC5 ==
    <<"0", "x", "3", "0", "2", ",", " ", "/", "/", " ", "L", "D", " ", "A", "C",
      "C", ",", "[", "2", "]", "\n", "\n", "5", ",", " ", "/", "/", " ", "m", "e",
      "m", "[", "2", "]", "\n", "7", ",", " ", "/", "/", " ", "m", "e", "m", "[",
      "3", "]">>

\* C5: in the output of a successful run every instruction line comes before
\* every data line, the instruction lines are the encodings of the source's
\* instruction lines in source order, and the data lines are in
\* non-decreasing order of address.
C5_Orden ==
    Termino =>
        LET out == Partir(resultado.v)
        IN  /\ \A i, j \in DOMAIN out :
                   EsLineaInstr(out[i]) /\ EsLineaDato(out[j]) => i < j
            /\ SelectSeq(out, EsLineaInstr) = InstrFuente(archivo)
            /\ \A i, j \in DOMAIN out :
                   (EsLineaDato(out[i]) /\ EsLineaDato(out[j]) /\ i < j)
                   => DirMostrada(out[i]) <= DirMostrada(out[j])

C5_Witness ==
    /\ archivo = <<L_MEM3, L_LD, L_MEM2>>
    /\ pc = "retornado"
    /\ resultado = str(TextoC5)

(***************************************************************************)
(* C8                                                                      *)
(***************************************************************************)
TextoC8 ==
    <<"0", "x", "E", "0", "0", ",", " ", "/", "/", " ", "H", "A", "L", "T", "\n",
      "\n", "5", ",", " ", "/", "/", " ", "m", "e", "m", "[", "2", "]">>

\* C8: the returned text is the instruction lines, one blank line, the data
\* lines, trimmed: it has a blank line exactly when both collections are
\* non-empty, that blank line is the only one and sits between the last
\* instruction line and the first data line, and the text neither begins nor
\* ends with a blank line.
C8_LineaEnBlanco ==
    Termino =>
        LET out == Partir(resultado.v)
            blancas == {i \in DOMAIN out : EsBlanca(out[i])}
            ni == Len(instrucciones)
        IN  /\ blancas # {} <=> (instrucciones # <<>> /\ datos # <<>>)
            /\ Cardinality(blancas) <= 1
            /\ blancas # {} => blancas = {ni + 1}
            /\ out # <<>> => ~EsBlanca(out[1]) /\ ~EsBlanca(out[Len(out)])
            /\ SelectSeq(out, EsLineaInstr) = instrucciones
            /\ Len(SelectSeq(out, EsLineaDato)) = Len(datos)
            /\ \A i \in DOMAIN out :
                   /\ EsLineaInstr(out[i]) => i <= ni
                   /\ EsLineaDato(out[i]) => i > ni

C8_Witness ==
    /\ archivo = <<L_HALT, L_MEM2>>
    /\ pc = "retornado"
    /\ resultado = str(TextoC8)

(***************************************************************************)
(* C9                                                                      *)
(***************************************************************************)
TextoC9 ==
    <<"1", "0", ",", " ", "/", "/", " ", "m", "e", "m", "[", "2", "]", "\n", "5",
      ",", " ", "/", "/", " ", "m", "e", "m", "[", "2", "]", "\n", "7", ",", " ",
      "/", "/", " ", "m", "e", "m", "[", "3", "]">>

\* C9: in a successful run the output has one data line per data directive
\* of the input, each showing the directive's (address, value), and the
\* directives of one address appear in their source order.
C9_Duplicados ==
    Termino =>
        LET out == SelectSeq(Partir(resultado.v), EsLineaDato)
            pares == [i \in DOMAIN out |-> ParMostrado(out[i])]
            fuente == ParesFuente(archivo)
        IN  /\ Len(out) = Cardinality({i \in DOMAIN archivo : EsDirectiva(archivo[i])})
            /\ \A a \in {p[1] : p \in Rango(pares) \cup Rango(fuente)} :
                   LET enA(p) == p[1] = a
                   IN  SelectSeq(pares, enA) = SelectSeq(fuente, enA)

C9_Witness ==
    /\ archivo = <<L_MEM3, L_MEM2HEX, L_MEM2>>
    /\ pc = "retornado"
    /\ resultado = str(TextoC9)

====
